---- MODULE Spec2Model ----
(***************************************************************************)
(* Model of the fem-reference-results generators:                          *)
(*   - femref.cubit_utils.cubit_cmd      (SpecCmd)                         *)
(*   - femref.utils.write_readme         (SpecReadme)                      *)
(*   - the three generator scripts run as __main__  (SpecScripts)          *)
(* The meshing session (CubitPy) and the file system are external          *)
(* services; their effects are modelled as far as the code observes them.  *)
(***************************************************************************)
EXTENDS Integers, Sequences, FiniteSets, TLC

VARIABLES
    \* ---- cubit_cmd ----
    session,              \* the entities of the meshing session: <<type, id>>
    pc,                   \* position inside cubit_cmd
    command,              \* argument: the command string
    track_id,             \* argument: the entity type tracked
    flatten_if_possible,  \* argument
    before_cmd,           \* local: the ID set read before the command
    calls,                \* the calls made on the session by the current cubit_cmd
    ret,                  \* the value returned by the last cubit_cmd
    session0,             \* the session as it was when cubit_cmd was entered
    \* ---- write_readme ----
    filepath,             \* argument: characters of the path
    options,              \* argument: dictionary as a sequence of <<key, value>>
    now,                  \* the wall clock (minutes)
    fs,                   \* the files on disk: path -> sequence of written chunks
    dirs,                 \* the directories on disk
    fs0,                  \* the disk as it was when write_readme was entered
    opened,               \* the paths opened for writing by the last write_readme
    status,               \* how the last write_readme ended: "none", "ok",
                          \* "KeyError" or "FileNotFoundError"
    \* ---- generator scripts ----
    script,               \* which script runs as __main__
    SHOW_STEP,            \* display flags of the script (CONTROLS section)
    SHOW_FINAL,
    ip,                   \* index of the next statement of the script
    filename,             \* argument of the generate function
    ops,                  \* every operation performed on the session, in order
    events                \* every step of __main__ that touches the disk or
                          \* enters or leaves the generate function, in order

cmdVars    == <<session, pc, command, track_id, flatten_if_possible, before_cmd,
                calls, ret, session0>>
readmeVars == <<filepath, options, now, fs, dirs, fs0, opened, status>>
scriptVars == <<script, SHOW_STEP, SHOW_FINAL, ip, filename, ops, events>>
vars       == <<cmdVars, readmeVars, scriptVars>>

(***************************************************************************)
(* Generic helpers                                                         *)
(***************************************************************************)
Range(s) == {s[i] : i \in DOMAIN s}

\* every sequence of length at most n over S
SeqsUpTo(S, n) == UNION {[1..k -> S] : k \in 0..n}

\* every listing of the finite set S without repetition
Orderings(S) == {s \in [1..Cardinality(S) -> S] : Range(s) = S}

(***************************************************************************)
(* cubit_cmd  (src/src/femref/cubit_utils.py)                              *)
(***************************************************************************)
MaxId == 2
EntityTypes == {"volume", "surface"}
Entities == EntityTypes \X (1..MaxId)
Commands == {"brick x 4 y 1 z 1", "delete volume all"}

\* cubit.parse_cubit_list(track_id, "all"): the IDs of every entity of a type
ParseCubitList(s, t) == {e[2] : e \in {x \in s : x[1] = t}}

QueryOp(t) == [op |-> "parse_cubit_list", type |-> t, arg |-> "all"]
CmdOp(c)   == [op |-> "cmd", type |-> "", arg |-> c]

\* the calls on the session of steps 1, 2 and 3
BeforeCalls(t) == <<QueryOp(t)>>
\* (faulty variant: the command is sent twice)
ExecCallsTwice(c) == <<CmdOp(c), CmdOp(c)>>
ExecCalls(c) == <<CmdOp(c)>>
AfterCalls(t) == <<QueryOp(t)>>

\* step 4: new_ids = after_cmd - before_cmd
\* (faulty variant: the IDs present before are not removed)
NewIdsNoDiff(before, after) == after
NewIds(before, after) == after \ before

\* the return statement: a bare ID or the list
\* (faulty variant: flatten_if_possible is ignored)
ReturnValueAlwaysFlat(new_ids, flatten) ==
    IF Len(new_ids) = 1
    THEN [kind |-> "int", value |-> new_ids[1]]
    ELSE [kind |-> "list", value |-> new_ids]
ReturnValue(new_ids, flatten) ==
    IF Len(new_ids) = 1 /\ flatten
    THEN [kind |-> "int", value |-> new_ids[1]]
    ELSE [kind |-> "list", value |-> new_ids]

NoReturn == [kind |-> "none", value |-> <<>>]

CmdInit ==
    /\ session = {}
    /\ pc = "idle"
    /\ command = ""
    /\ track_id = "volume"
    /\ flatten_if_possible = TRUE
    /\ before_cmd = {}
    /\ calls = <<>>
    /\ ret = NoReturn
    /\ session0 = {}

\* entry and step 1: before_cmd = set(cubit.parse_cubit_list(track_id, "all"))
CubitCmdCall ==
    /\ pc \in {"idle", "returned"}
    /\ \E c \in Commands, t \in EntityTypes, f \in BOOLEAN :
        /\ command' = c
        /\ track_id' = t
        /\ flatten_if_possible' = f
        /\ before_cmd' = ParseCubitList(session, t)
        /\ calls' = BeforeCalls(t)
    /\ session0' = session
    /\ ret' = NoReturn
    /\ pc' = "queried"
    /\ UNCHANGED session
    /\ UNCHANGED <<readmeVars, scriptVars>>

\* step 2: cubit.cmd(command); what the session does with it is up to the
\* meshing engine: entities of any type may appear or disappear
CubitCmdExec ==
    /\ pc = "queried"
    /\ session' \in SUBSET Entities
    /\ calls' = calls \o ExecCalls(command)
    /\ pc' = "executed"
    /\ UNCHANGED <<command, track_id, flatten_if_possible, before_cmd, ret, session0>>
    /\ UNCHANGED <<readmeVars, scriptVars>>

\* steps 3, 4 and the return
CubitCmdReturn ==
    /\ pc = "executed"
    /\ LET after_cmd == ParseCubitList(session, track_id)
       IN \E new_ids \in Orderings(NewIds(before_cmd, after_cmd)) :
            ret' = ReturnValue(new_ids, flatten_if_possible)
    /\ calls' = calls \o AfterCalls(track_id)
    /\ pc' = "returned"
    /\ UNCHANGED <<session, command, track_id, flatten_if_possible, before_cmd, session0>>
    /\ UNCHANGED <<readmeVars, scriptVars>>

(***************************************************************************)
(* write_readme  (src/src/femref/utils.py)                                 *)
(***************************************************************************)
MaxSegs == 2
MaxOptions == 3
MaxParams == 2
MaxClock == 1

\* ---- paths are sequences of characters ----
README_MD == <<"R", "E", "A", "D", "M", "E", ".", "m", "d">>
Slash == <<"/">>

RECURSIVE Concat(_)
Concat(ss) == IF ss = <<>> THEN <<>> ELSE Head(ss) \o Concat(Tail(ss))

\* the pieces the model builds file paths from
Pieces == {<<".", "/">>, <<"d">>, Slash, README_MD,
           <<"E", "A", "D", "M", "E", ".", "m", "d">>}
Paths == {Concat(ss) : ss \in SeqsUpTo(Pieces, MaxSegs)}
SamplePaths == {README_MD, <<"d">>}

\* str.endswith
EndsWith(s, suffix) ==
    /\ Len(s) >= Len(suffix)
    /\ SubSeq(s, Len(s) - Len(suffix) + 1, Len(s)) = suffix

\* lines 18-20: the path that is opened
\* (faulty variant: "/README.md" is appended without the endswith test)
TargetPathAlwaysAppend(fp) == fp \o Slash \o README_MD
TargetPath(fp) ==
    IF ~EndsWith(fp, README_MD) THEN fp \o Slash \o README_MD ELSE fp

\* index of the last "/" of a path, 0 when there is none
LastSlash(p) ==
    LET idx == {i \in 1..Len(p) : p[i] = "/"}
    IN IF idx = {} THEN 0 ELSE CHOOSE i \in idx : \A j \in idx : j <= i

\* the last component of a path (what the file is named)
Basename(p) == SubSeq(p, LastSlash(p) + 1, Len(p))

RECURSIVE RStripSlash(_)
RStripSlash(p) ==
    IF p # <<>> /\ p[Len(p)] = "/" THEN RStripSlash(SubSeq(p, 1, Len(p) - 1)) ELSE p

\* the directory a path lies in: everything up to the last "/", trailing
\* slashes dropped unless the directory is the root
Dirname(p) ==
    LET head == SubSeq(p, 1, LastSlash(p))
    IN IF RStripSlash(head) = <<>> THEN head ELSE RStripSlash(head)

\* open(filepath, "w") needs the directory of the file to exist; the working
\* directory and the root always do
DirExists(d, ds) == d \in {<<>>, <<".">>, Slash} \/ d \in ds

\* ---- option values ----
IntV(n)   == [t |-> "int",   v |-> n]
StrV(s)   == [t |-> "str",   v |-> s]
FloatV(r) == [t |-> "float", v |-> r]      \* r: the repr of the float
DictV(m)  == [t |-> "dict",  v |-> m]      \* m: sequence of <<param, value>>

\* hasattr(value, "items")
HasItems(value) == value.t = "dict"

Keys(d) == {d[i][1] : i \in DOMAIN d}
HasKey(d, k) == k \in Keys(d)
Lookup(d, k) == d[CHOOSE i \in DOMAIN d : d[i][1] = k][2]

\* repr() and str() of a value, as an f-string formats it
RECURSIVE Repr(_), ReprItems(_)
Repr(value) ==
    CASE value.t = "int"   -> ToString(value.v)
      [] value.t = "float" -> value.v
      [] value.t = "str"   -> "'" \o value.v \o "'"
      [] value.t = "dict"  -> "{" \o ReprItems(value.v) \o "}"
ReprItems(m) ==
    IF m = <<>> THEN ""
    ELSE "'" \o m[1][1] \o "': " \o Repr(m[1][2])
         \o (IF Len(m) > 1 THEN ", " ELSE "") \o ReprItems(Tail(m))
Str(value) == IF value.t = "str" THEN value.v ELSE Repr(value)

\* datetime.datetime.now().strftime(...): the text of the clock reading
Strftime(t) == "minute " \o ToString(t) \o " "

\* ---- the chunks handed to f.write ----
TitleChunk(o)   == "# " \o Str(Lookup(o, "title")) \o "\n\n"
DescChunk(o)    == Str(Lookup(o, "description")) \o "\n\n\n"
HeadingChunk(k) == "## " \o k \o "\n"
TableHead       == "| Parameter | Value |\n|:--|:--|\n"
RowChunk(e)     == "| " \o e[1] \o " | " \o Str(e[2]) \o " |\n"
SectionEnd      == "\n\n"
UpdatedChunk(t) == "Last updated: " \o Strftime(t) \o "\n"

\* lines 31-32: one row per entry of the mapping, in its order
\* (faulty variant: the entries are written last to first)
RowsReversed(m) == [i \in DOMAIN m |-> RowChunk(m[Len(m) + 1 - i])]
Rows(m) == [i \in DOMAIN m |-> RowChunk(m[i])]

\* lines 27-33: the loop over options.items()
RECURSIVE Sections(_)
Sections(o) ==
    IF o = <<>> THEN <<>>
    ELSE (IF HasItems(o[1][2])
          THEN <<HeadingChunk(o[1][1]), TableHead>> \o Rows(o[1][2].v) \o <<SectionEnd>>
          ELSE <<>>)
         \o Sections(Tail(o))

\* lines 24-36: everything written before the file is closed, and how the
\* body of the with statement ends
Written(o, t) ==
    IF ~HasKey(o, "title") THEN <<>>
    ELSE IF ~HasKey(o, "description") THEN <<TitleChunk(o)>>
    ELSE <<TitleChunk(o), DescChunk(o)>> \o Sections(o) \o <<UpdatedChunk(t)>>
Outcome(o) ==
    IF HasKey(o, "title") /\ HasKey(o, "description") THEN "ok" ELSE "KeyError"

\* open(path, "w") followed by the writes: the file holds what was written
OpenWrite(old, chunks) == chunks

\* ---- the inputs of the model ----
ParamEntries == {<<"length", IntV(4)>>, <<"mesh_size", FloatV("0.1")>>}
Mappings == {m \in SeqsUpTo(ParamEntries, MaxParams) :
                \A i, j \in DOMAIN m : i # j => m[i][1] # m[j][1]}
Values == {StrV("nonlinear")} \cup {DictV(m) : m \in Mappings}
OptionKeys == {"title", "description", "mesh"}
AllOptions == {o \in SeqsUpTo(OptionKeys \X Values, MaxOptions) :
                \A i, j \in DOMAIN o : i # j => o[i][1] # o[j][1]}
SampleOptions == {<<>>,
                  <<<<"title", StrV("nonlinear")>>,
                    <<"description", StrV("nonlinear")>>,
                    <<"mesh", DictV(<<<<"length", IntV(4)>>>>)>>>>}
ReadmeInputs == (Paths \X SampleOptions) \cup (SamplePaths \X AllOptions)
AllDirs == {Dirname(TargetPath(p)) : p \in Paths}
StaleFile == <<"o", "l", "d", ".", "m", "d">>

\* write_readme(filepath, options) at clock reading t on disk (disk, ds):
\* the disk afterwards, the paths opened for writing, and how the call ended
WriteReadmeEffect(fp, o, t, disk, ds) ==
    LET target == TargetPath(fp)
        old == IF target \in DOMAIN disk THEN disk[target] ELSE <<>>
    IN IF DirExists(Dirname(target), ds)
       THEN [fs |-> [p \in DOMAIN disk \cup {target} |->
                        IF p = target THEN OpenWrite(old, Written(o, t))
                        ELSE disk[p]],
             opened |-> <<target>>,
             status |-> Outcome(o)]
       ELSE [fs |-> disk, opened |-> <<>>, status |-> "FileNotFoundError"]

ReadmeInit ==
    /\ \E inp \in ReadmeInputs : filepath = inp[1] /\ options = inp[2]
    /\ now = 0
    /\ fs = [p \in {StaleFile} |-> <<"stale\n">>]
    /\ dirs \in {{}, AllDirs}
    /\ fs0 = fs
    /\ opened = <<>>
    /\ status = "none"

\* a call of write_readme(filepath, options), to its return or exception
WriteReadme ==
    LET r == WriteReadmeEffect(filepath, options, now, fs, dirs)
    IN /\ fs0' = fs
       /\ fs' = r.fs
       /\ opened' = r.opened
       /\ status' = r.status
       /\ UNCHANGED <<filepath, options, now, dirs>>
       /\ UNCHANGED <<cmdVars, scriptVars>>

\* the clock advances between calls
Tick ==
    /\ now < MaxClock
    /\ now' = now + 1
    /\ UNCHANGED <<filepath, options, fs, dirs, fs0, opened, status>>
    /\ UNCHANGED <<cmdVars, scriptVars>>

(***************************************************************************)
(* The generator scripts run as __main__  (src/examples/...)               *)
(***************************************************************************)
Scripts == {"bending_beam", "block_torsion", "semicircle"}

\* the paths the scripts use; KINEMATICS = "nonlinear" in block_torsion and
\* semicircle, so path = "./nonlinear"
NONLINEAR == <<".", "/", "n", "o", "n", "l", "i", "n", "e", "a", "r">>
BLOCK_DAT == NONLINEAR \o <<"/", "b", "l", "o", "c", "k", "_", "t", "o", "r", "s", "i", "o", "n", ".", "d", "a", "t">>
HERTZ_YAML == NONLINEAR \o <<"/", "h", "e", "r", "t", "z", "i", "a", "n", "_", "c", "o", "n", "t", "a", "c", "t", ".", "y", "a", "m", "l">>
NONLINEAR_README == NONLINEAR \o Slash \o README_MD
BEAM_DAT == <<".", "/", "h", "y", "p", "e", "r", "e", "l", "a", "s", "t", "i", "c", "_", "b", "e", "n", "d", "i", "n", "g", "_", "b", "e", "a", "m", ".", "d", "a", "t">>
DOT_README == <<".", "/">> \o README_MD

\* the OPTIONS dictionary of each script
BLOCK_OPTIONS == <<
    <<"title",
      StrV("Torsion of a block with non-linear kinematic behavior")>>,
    <<"description",
      StrV("We simulate the torsion of a block by prescribing a Dirichlet BC which increases with the load step.")>>,
    <<"geometry", DictV(<<
            <<"length", IntV(4)>>,
            <<"height", IntV(1)>>,
            <<"depth", IntV(1)>>>>)>>,
    <<"mesh", DictV(<<
            <<"mesh_size", FloatV("0.1")>>>>)>>,
    <<"model", DictV(<<
            <<"kinematics", StrV("nonlinear")>>>>)>>,
    <<"material", DictV(<<
            <<"constitutive_law", StrV("ELAST_CoupLogNeoHooke")>>,
            <<"youngs_modulus", FloatV("1.33")>>,
            <<"poisson_ratio", FloatV("0.33")>>>>)>>,
    <<"boundary_conditions", DictV(<<
            <<"end_rotation", IntV(150)>>,
            <<"load_steps", IntV(50)>>>>)>>>>
BEAM_OPTIONS == <<
    <<"title",
      StrV("Hyperelastic bending beam with nonlinear kinematics under shear force")>>,
    <<"description",
      StrV("We simulate the large deformation of a hyperelastic bending beam by prescribing a Neumann BC which increases with the load step.")>>,
    <<"geometry", DictV(<<
            <<"length", IntV(20)>>,
            <<"height", IntV(2)>>>>)>>,
    <<"mesh", DictV(<<
            <<"mesh_size", FloatV("0.1")>>>>)>>,
    <<"model", DictV(<<
            <<"kinematics", StrV("nonlinear")>>,
            <<"stress_closure", StrV("plane_strain")>>>>)>>,
    <<"material", DictV(<<
            <<"constitutive_law", StrV("ELAST_CoupLogNeoHooke")>>,
            <<"shear_modulus", FloatV("4170000000.0")>>,
            <<"lame_parameter", FloatV("2780000000.0")>>>>)>>,
    <<"boundary_conditions", DictV(<<
            <<"max_shear_force", FloatV("10000000.0")>>,
            <<"load_steps", IntV(50)>>>>)>>>>
SEMICIRCLE_OPTIONS == <<
    <<"title",
      StrV("Hertzian-type contact with large deformation")>>,
    <<"description",
      StrV("We simulate a two-dimensional hertzian-type contact problem by subjecting a 2D semicircle to a pressure on its top surface.")>>,
    <<"geometry", DictV(<<
            <<"radius", IntV(1)>>,
            <<"h_width", FloatV("0.3")>>,
            <<"h_height", FloatV("0.4")>>,
            <<"h_arcloc", FloatV("0.7071067811865476")>>>>)>>,
    <<"mesh", DictV(<<
            <<"mesh_size_coarse", FloatV("0.1")>>,
            <<"mesh_size_intermediate", FloatV("0.030000000000000002")>>,
            <<"mesh_size_contact", FloatV("0.02")>>>>)>>,
    <<"model", DictV(<<
            <<"kinematics", StrV("nonlinear")>>>>)>>,
    <<"material", DictV(<<
            <<"constitutive_law", StrV("ELAST_CoupLogNeoHooke")>>,
            <<"youngs_modulus", FloatV("1.33")>>,
            <<"poisson_ratio", FloatV("0.33")>>>>)>>,
    <<"boundary_conditions", DictV(<<
            <<"end_pressure", IntV(5)>>,
            <<"load_steps", IntV(50)>>>>)>>>>
OPTIONS(sc) ==
    CASE sc = "bending_beam" -> BEAM_OPTIONS
      [] sc = "block_torsion" -> BLOCK_OPTIONS
      [] sc = "semicircle" -> SEMICIRCLE_OPTIONS

\* the number of entries of SHOW_STEP
NumShowSteps(sc) ==
    CASE sc = "bending_beam" -> 3
      [] sc = "block_torsion" -> 4
      [] sc = "semicircle" -> 5

\* ---- statements: source line, kind, and what the kind needs ----
St(l, k) == [line |-> l, kind |-> k, cls |-> "", gate |-> 0, final |-> FALSE, path |-> <<>>]
\* cubit.cmd(...); cls is the leading verb of the command: "create" (brick,
\* create vertex/curve/surface), "move", "imprint", "merge", "scheme", "size",
\* "mesh"
CmdSt(l, c) == [St(l, "cmd") EXCEPT !.cls = c]
\* if SHOW_STEP[g - 1] (or SHOW_FINAL): cubit.display_in_cubit(...)
DisplaySt(l, g, f) == [St(l, "display") EXCEPT !.gate = g, !.final = f]
MakedirsSt(l, p) == [St(l, "makedirs") EXCEPT !.path = p]
CallSt(l, p) == [St(l, "call") EXCEPT !.path = p]
ReadmeSt(l, p) == [St(l, "write_readme") EXCEPT !.path = p]

\* generate_block_torsion.py: __main__ (lines 205-211) with generate_block
\* (lines 87-198) in the place of its call
BlockProgram == <<
    MakedirsSt(207, NONLINEAR),
    CallSt(209, BLOCK_DAT),
    St(90, "new"),
    CmdSt(93, "create"),
    St(96, "get_last_id"),
    St(96, "volume"),
    DisplaySt(98, 1, FALSE),
    CmdSt(102, "move"),
    DisplaySt(106, 2, FALSE),
    CmdSt(110, "size"),
    CmdSt(111, "mesh"),
    DisplaySt(113, 3, FALSE),
    St(118, "group"),
    St(117, "add_node_set"),
    St(124, "group"),
    St(123, "add_node_set"),
    DisplaySt(130, 4, TRUE),
    St(134, "add_element_type"),
    St(141, "print_mesh_statistics"),
    St(144, "set_head"),
    St(198, "create_dat"),
    St(198, "return"),
    ReadmeSt(211, NONLINEAR_README)>>

\* generate_hyperelastic_bending_beam.py: __main__ (lines 216-219) with
\* generate_bending_beam (lines 95-209) in the place of its call
BeamProgram == <<
    CallSt(217, BEAM_DAT),
    St(98, "new"),
    CmdSt(101, "create"),
    St(106, "get_last_id"),
    St(106, "surface"),
    DisplaySt(108, 1, FALSE),
    CmdSt(112, "size"),
    CmdSt(113, "mesh"),
    DisplaySt(115, 2, FALSE),
    St(120, "group"),
    St(119, "add_node_set"),
    St(126, "group"),
    St(125, "add_node_set"),
    St(132, "group"),
    St(131, "add_node_set"),
    St(138, "group"),
    St(137, "add_node_set"),
    St(145, "add_element_type"),
    St(152, "print_mesh_statistics"),
    DisplaySt(154, 3, TRUE),
    St(158, "set_head"),
    St(209, "create_dat"),
    St(209, "return"),
    ReadmeSt(219, DOT_README)>>

\* generate_semicircle.py: __main__ (lines 252-258) with generate_semicircle
\* (lines 97-245) in the place of its call
SemicircleProgram == <<
    MakedirsSt(254, NONLINEAR),
    CallSt(256, HERTZ_YAML),
    St(107, "new"),
    CmdSt(110, "create"),
    CmdSt(111, "create"),
    CmdSt(112, "create"),
    CmdSt(113, "create"),
    CmdSt(115, "create"),
    CmdSt(116, "create"),
    CmdSt(117, "create"),
    CmdSt(119, "create"),
    CmdSt(120, "create"),
    DisplaySt(122, 1, FALSE),
    CmdSt(127, "create"),
    CmdSt(128, "create"),
    CmdSt(129, "create"),
    CmdSt(130, "create"),
    CmdSt(131, "create"),
    CmdSt(132, "create"),
    CmdSt(134, "create"),
    CmdSt(135, "create"),
    CmdSt(136, "create"),
    CmdSt(137, "create"),
    CmdSt(138, "create"),
    DisplaySt(140, 2, FALSE),
    CmdSt(145, "create"),
    CmdSt(146, "create"),
    CmdSt(147, "create"),
    CmdSt(148, "create"),
    St(150, "group"),
    CmdSt(154, "imprint"),
    CmdSt(155, "merge"),
    CmdSt(159, "create"),
    St(162, "get_last_id"),
    CmdSt(164, "move"),
    St(168, "group"),
    DisplaySt(170, 3, FALSE),
    CmdSt(175, "scheme"),
    CmdSt(178, "scheme"),
    CmdSt(181, "scheme"),
    CmdSt(184, "scheme"),
    CmdSt(187, "scheme"),
    CmdSt(192, "size"),
    CmdSt(195, "mesh"),
    DisplaySt(197, 4, FALSE),
    St(202, "group"),
    St(201, "add_node_set"),
    St(215, "group"),
    St(214, "add_node_set"),
    St(227, "group"),
    St(226, "add_element_type"),
    St(234, "group"),
    St(233, "add_element_type"),
    St(242, "print_mesh_statistics"),
    DisplaySt(244, 5, TRUE),
    St(245, "return"),
    ReadmeSt(258, NONLINEAR_README)>>

Program(sc) ==
    CASE sc = "bending_beam" -> BeamProgram
      [] sc = "block_torsion" -> BlockProgram
      [] sc = "semicircle" -> SemicircleProgram

\* ---- running a script ----
Running == ip \in 1..Len(Program(script))
Finished == script \in Scripts /\ ip = Len(Program(script)) + 1
Crashed == ip = 0
Cur == Program(script)[ip]

SessionOp(st) == [op |-> st.kind, cls |-> st.cls, line |-> st.line]
Event(e, p) == [ev |-> e, path |-> p]

\* a statement that is one call on the session: the call is appended to the
\* log and the script goes on
Perform(st) ==
    /\ ops' = Append(ops, SessionOp(st))
    /\ ip' = ip + 1
    /\ UNCHANGED <<script, SHOW_STEP, SHOW_FINAL, filename, events>>
    /\ UNCHANGED <<cmdVars, readmeVars>>

\* os.makedirs(path, exist_ok=True)
Makedirs ==
    /\ Running
    /\ Cur.kind = "makedirs"
    /\ dirs' = dirs \cup {Cur.path}
    /\ events' = Append(events, Event("makedirs", Cur.path))
    /\ ip' = ip + 1
    /\ UNCHANGED <<script, SHOW_STEP, SHOW_FINAL, filename, ops>>
    /\ UNCHANGED <<filepath, options, now, fs, fs0, opened, status>>
    /\ UNCHANGED cmdVars

\* __main__ calls the generate function with the file name
CallGenerate ==
    /\ Running
    /\ Cur.kind = "call"
    /\ filename' = Cur.path
    /\ events' = Append(events, Event("generate_called", Cur.path))
    /\ ip' = ip + 1
    /\ UNCHANGED <<script, SHOW_STEP, SHOW_FINAL, ops>>
    /\ UNCHANGED <<cmdVars, readmeVars>>

\* cubit = CubitPy(): a fresh session, nothing done on it yet
SessionNew ==
    /\ Running
    /\ Cur.kind = "new"
    /\ ops' = <<>>
    /\ ip' = ip + 1
    /\ UNCHANGED <<script, SHOW_STEP, SHOW_FINAL, filename, events>>
    /\ UNCHANGED <<cmdVars, readmeVars>>

\* cubit.cmd(...)
Cmd ==
    /\ Running
    /\ Cur.kind \in {"cmd"}
    /\ Perform(Cur)

\* cubit.get_last_id(...)
GetLastId ==
    /\ Running
    /\ Cur.kind \in {"get_last_id"}
    /\ Perform(Cur)

\* cubit.volume(id) / cubit.surface(id)
GeometryObject ==
    /\ Running
    /\ Cur.kind \in {"volume", "surface"}
    /\ Perform(Cur)

\* cubit.group(...)
Group ==
    /\ Running
    /\ Cur.kind \in {"group"}
    /\ Perform(Cur)

\* cubit.add_node_set(...)
AddNodeSet ==
    /\ Running
    /\ Cur.kind \in {"add_node_set"}
    /\ Perform(Cur)

\* cubit.add_element_type(...)
AddElementType ==
    /\ Running
    /\ Cur.kind \in {"add_element_type"}
    /\ Perform(Cur)

\* cubit.head = f"""..."""
SetHead ==
    /\ Running
    /\ Cur.kind \in {"set_head"}
    /\ Perform(Cur)

\* the condition of the if in front of cubit.display_in_cubit
ShowCondition(st) == SHOW_STEP[st.gate] \/ (st.final /\ SHOW_FINAL)

\* if <condition>: cubit.display_in_cubit(...)
Display ==
    /\ Running
    /\ Cur.kind = "display"
    /\ ShowCondition(Cur)
    /\ Perform(Cur)

DisplaySkip ==
    /\ Running
    /\ Cur.kind = "display"
    /\ ~ShowCondition(Cur)
    /\ ip' = ip + 1
    /\ UNCHANGED <<script, SHOW_STEP, SHOW_FINAL, filename, ops, events>>
    /\ UNCHANGED <<cmdVars, readmeVars>>

\* print_mesh_statistics(cubit) (cubit_utils.py lines 45-64): two counts, the
\* list of node sets, and one count per node set
RECURSIVE Repeat(_, _)
Repeat(x, n) == IF n = 0 THEN <<>> ELSE <<x>> \o Repeat(x, n - 1)
NumNodeSets(log) == Cardinality({i \in DOMAIN log : log[i].op = "add_node_set"})
StatsOp(name, st) == [op |-> name, cls |-> "", line |-> st.line]
PrintMeshStatistics ==
    /\ Running
    /\ Cur.kind = "print_mesh_statistics"
    /\ ops' = ops \o <<StatsOp("get_node_count", Cur),
                       StatsOp("get_element_count", Cur),
                       StatsOp("parse_cubit_list", Cur)>>
                  \o Repeat(StatsOp("get_nodeset_node_count", Cur), NumNodeSets(ops))
    /\ ip' = ip + 1
    /\ UNCHANGED <<script, SHOW_STEP, SHOW_FINAL, filename, events>>
    /\ UNCHANGED <<cmdVars, readmeVars>>

\* cubit.create_dat(filename): the session writes the solver input file; the
\* script stops with an exception when the directory is missing
CreateDat ==
    /\ Running
    /\ Cur.kind = "create_dat"
    /\ ops' = Append(ops, SessionOp(Cur))
    /\ IF DirExists(Dirname(filename), dirs)
       THEN /\ fs' = [p \in DOMAIN fs \cup {filename} |->
                        IF p = filename THEN <<"input file\n">> ELSE fs[p]]
            /\ events' = Append(events, Event("create_dat", filename))
            /\ ip' = ip + 1
       ELSE /\ fs' = fs
            /\ events' = events
            /\ ip' = 0
    /\ UNCHANGED <<script, SHOW_STEP, SHOW_FINAL, filename>>
    /\ UNCHANGED <<filepath, options, now, dirs, fs0, opened, status>>
    /\ UNCHANGED cmdVars

\* the generate function returns to __main__
Return ==
    /\ Running
    /\ Cur.kind = "return"
    /\ events' = Append(events, Event("generate_returned", filename))
    /\ ip' = ip + 1
    /\ UNCHANGED <<script, SHOW_STEP, SHOW_FINAL, filename, ops>>
    /\ UNCHANGED <<cmdVars, readmeVars>>

\* write_readme(<path>, OPTIONS) in __main__
MainWriteReadme ==
    /\ Running
    /\ Cur.kind = "write_readme"
    /\ LET r == WriteReadmeEffect(Cur.path, OPTIONS(script), now, fs, dirs)
       IN /\ filepath' = Cur.path
          /\ options' = OPTIONS(script)
          /\ fs0' = fs
          /\ fs' = r.fs
          /\ opened' = r.opened
          /\ status' = r.status
          /\ events' = IF r.opened = <<>> THEN events
                       ELSE Append(events, Event("write_readme", r.opened[1]))
          /\ ip' = IF r.status = "ok" THEN ip + 1 ELSE 0
    /\ UNCHANGED <<now, dirs>>
    /\ UNCHANGED <<script, SHOW_STEP, SHOW_FINAL, filename, ops>>
    /\ UNCHANGED cmdVars

(***************************************************************************)
(* Specifications                                                          *)
(***************************************************************************)
\* the parts of the state a specification does not use
CmdIdle == CmdInit
ReadmeIdle ==
    /\ filepath = <<>>
    /\ options = <<>>
    /\ now = 0
    /\ fs0 = fs
    /\ opened = <<>>
    /\ status = "none"
ScriptIdle ==
    /\ script = "none"
    /\ SHOW_STEP = <<>>
    /\ SHOW_FINAL = FALSE
    /\ ip = 0
    /\ filename = <<>>
    /\ ops = <<>>
    /\ events = <<>>

\* cubit_cmd called again and again on one session
InitCmd == CmdInit /\ fs = <<>> /\ dirs = {} /\ ReadmeIdle /\ ScriptIdle
NextCmd == CubitCmdCall \/ CubitCmdExec \/ CubitCmdReturn
SpecCmd == InitCmd /\ [][NextCmd]_vars

\* write_readme called with one pair of arguments, any number of times
InitReadme == CmdIdle /\ ReadmeInit /\ ScriptIdle
NextReadme == WriteReadme \/ Tick
SpecReadme == InitReadme /\ [][NextReadme]_vars

\* one of the scripts run as __main__; the display flags are whatever the
\* CONTROLS section sets them to, the output directory may exist already
InitScripts ==
    /\ CmdIdle
    /\ fs = [p \in {StaleFile} |-> <<"stale\n">>]
    /\ dirs \in {{}, {NONLINEAR}}
    /\ ReadmeIdle
    /\ script \in Scripts
    /\ SHOW_STEP \in [1..NumShowSteps(script) -> BOOLEAN]
    /\ SHOW_FINAL \in BOOLEAN
    /\ ip = 1
    /\ filename = <<>>
    /\ ops = <<>>
    /\ events = <<>>
NextScripts ==
    \/ Makedirs
    \/ CallGenerate
    \/ SessionNew
    \/ Cmd
    \/ GetLastId
    \/ GeometryObject
    \/ Group
    \/ AddNodeSet
    \/ AddElementType
    \/ SetHead
    \/ Display
    \/ DisplaySkip
    \/ PrintMeshStatistics
    \/ CreateDat
    \/ Return
    \/ MainWriteReadme
SpecScripts == InitScripts /\ [][NextScripts]_vars

(***************************************************************************)
(* Properties of cubit_cmd  (checked under SpecCmd)                        *)
(***************************************************************************)
\* the IDs a return value holds, as a sequence
ReturnedIds == IF ret.kind = "int" THEN <<ret.value>> ELSE ret.value

\* the IDs of type track_id in the session now that were not in it when
\* cubit_cmd was entered
AddedIds == {e[2] : e \in {x \in session \ session0 : x[1] = track_id}}

\* C1: when cubit_cmd returns, the returned IDs are exactly the IDs of type
\* track_id that exist in the session after the command and did not exist
\* before it, each of them once; an entity of another type never contributes.
C1_ReturnsAddedIds ==
    pc = "returned" =>
        /\ Range(ReturnedIds) = AddedIds
        /\ Len(ReturnedIds) = Cardinality(AddedIds)
        /\ \A i \in Range(ReturnedIds) : <<track_id, i>> \in session

\* a call that returned new IDs although entities of the tracked type were
\* there before and the command also added an entity of another type
C1_Witness ==
    /\ pc = "returned"
    /\ ParseCubitList(session0, track_id) # {}
    /\ AddedIds # {}
    /\ \E e \in session \ session0 : e[1] # track_id

\* C2: cubit_cmd returns a bare ID exactly when flatten_if_possible is true
\* and exactly one new ID was created; in every other case it returns the
\* list of the new IDs.
C2_FlattenIff ==
    pc = "returned" =>
        /\ ret.kind \in {"int", "list"}
        /\ ret.kind = "int" <=> (flatten_if_possible /\ Cardinality(AddedIds) = 1)
        /\ ret.kind = "int" => ret.value \in AddedIds
        /\ ret.kind = "list" => /\ Range(ret.value) = AddedIds
                                /\ Len(ret.value) = Cardinality(AddedIds)

\* one new ID with flatten_if_possible false: a list of one entry comes back
C2_Witness ==
    /\ pc = "returned"
    /\ ~flatten_if_possible
    /\ Cardinality(AddedIds) = 1
    /\ ret.kind = "list"
    /\ Len(ret.value) = 1

\* C8: a call of cubit_cmd performs exactly three operations on the session,
\* in this order: a query of all IDs of type track_id, the given command
\* (once), a query of all IDs of the same type; at no point of the call has
\* it done anything else on the session.
C8_ThreeCalls ==
    LET whole == <<[op |-> "parse_cubit_list", type |-> track_id, arg |-> "all"],
                   [op |-> "cmd", type |-> "", arg |-> command],
                   [op |-> "parse_cubit_list", type |-> track_id, arg |-> "all"]>>
    IN /\ Len(calls) <= 3
       /\ calls = SubSeq(whole, 1, Len(calls))
       /\ pc = "queried" => Len(calls) = 1
       /\ pc = "executed" => Len(calls) = 2
       /\ pc = "returned" => Len(calls) = 3

\* a finished call that tracked surfaces and whose command changed the session
C8_Witness ==
    /\ pc = "returned"
    /\ track_id = "surface"
    /\ session # session0
    /\ Len(calls) = 3

(***************************************************************************)
(* Properties of write_readme  (checked under SpecReadme)                  *)
(***************************************************************************)
\* the path the claim says is written
ClaimedTarget ==
    IF EndsWith(filepath, README_MD) THEN filepath
    ELSE filepath \o <<"/", "R", "E", "A", "D", "M", "E", ".", "m", "d">>

IsMapping(value) == value.t = "dict"

\* the number of chunks a section of a mapping takes: heading, table header,
\* one row per entry, the blank lines closing it
SectionLen(value) == IF IsMapping(value) THEN Len(value.v) + 3 ELSE 0

RECURSIVE ChunksBefore(_, _)
\* the number of chunks written before the section of option i starts
ChunksBefore(o, i) ==
    IF i = 1 THEN 2 ELSE ChunksBefore(o, i - 1) + SectionLen(o[i - 1][2])

\* the number of chunks of a readme written to its end
ExpectedLen(o) ==
    IF ~HasKey(o, "title") THEN 0
    ELSE IF ~HasKey(o, "description") THEN 1
    ELSE ChunksBefore(o, Len(o) + 1) + 1

\* C4 as stated: the file written is named README.md; it is filepath when
\* that ends with "README.md" and filepath + "/README.md" otherwise; one file
\* is opened for writing and its previous content is replaced.  (Stated for
\* the calls that ran to their end.)
C4_Original ==
    status = "ok" =>
        /\ opened = <<ClaimedTarget>>
        /\ Basename(opened[1]) = README_MD
        /\ Len(fs[opened[1]]) = ExpectedLen(options)

\* C4 amended: the path written ends with "README.md" (it is filepath when
\* that ends with "README.md" and filepath + "/README.md" otherwise); when
\* the open succeeds exactly one file is opened for writing, its previous
\* content is replaced and no other file changes; when the directory of the
\* path is missing nothing is opened and nothing changes.
C4_TargetPath ==
    /\ status = "none" => opened = <<>> /\ fs = fs0
    /\ status = "FileNotFoundError" =>
            /\ opened = <<>>
            /\ fs = fs0
            /\ ~DirExists(Dirname(ClaimedTarget), dirs)
    /\ status \in {"ok", "KeyError"} =>
            /\ opened = <<ClaimedTarget>>
            /\ EndsWith(opened[1], README_MD)
            /\ DOMAIN fs = DOMAIN fs0 \cup {opened[1]}
            /\ \A p \in DOMAIN fs0 \ {opened[1]} : fs[p] = fs0[p]
            /\ Len(fs[opened[1]]) = ExpectedLen(options)
            /\ \A i \in 1..(Len(fs[opened[1]]) - 1) :
                    ~(\E t \in 0..MaxClock : fs[opened[1]][i] = UpdatedChunk(t))

\* a readme written a second time over the one an earlier call left, at a
\* path that ended with README.md already, at a later time
C4_Witness ==
    /\ status = "ok"
    /\ EndsWith(filepath, README_MD)
    /\ opened # <<>>
    /\ opened[1] \in DOMAIN fs0
    /\ fs0[opened[1]] # fs[opened[1]]
    /\ LastSlash(filepath) > 0

\* C5: a readme written to its end holds, in this order: the title header,
\* the description, then for every option whose value is a mapping, in the
\* order of the dictionary, a section of a "## key" heading, the table header
\* and one row per entry of the mapping in its order (closed by blank lines),
\* and last one "Last updated" line; an option whose value is no mapping
\* gives no section and no row.
C5_Layout ==
    status = "ok" =>
        LET c == fs[opened[1]]
            o == options
        IN /\ Len(c) = ExpectedLen(o)
           /\ c[1] = "# " \o Str(Lookup(o, "title")) \o "\n\n"
           /\ c[2] = Str(Lookup(o, "description")) \o "\n\n\n"
           /\ \A i \in DOMAIN o :
                IsMapping(o[i][2]) =>
                    LET at == ChunksBefore(o, i)
                        m == o[i][2].v
                    IN /\ c[at + 1] = "## " \o o[i][1] \o "\n"
                       /\ c[at + 2] = "| Parameter | Value |\n|:--|:--|\n"
                       /\ \A k \in DOMAIN m :
                            c[at + 2 + k] =
                                "| " \o m[k][1] \o " | " \o Str(m[k][2]) \o " |\n"
                       /\ c[at + 3 + Len(m)] = "\n\n"
           /\ \E t \in 0..MaxClock :
                c[Len(c)] = "Last updated: " \o Strftime(t) \o "\n"
           /\ Cardinality({j \in DOMAIN c :
                    \E t \in 0..MaxClock : c[j] = UpdatedChunk(t)}) = 1

\* a finished readme of a dictionary with two mapping-valued options, one of
\* them with two entries, and an option that is no mapping
C5_Witness ==
    /\ status = "ok"
    /\ Cardinality({i \in DOMAIN options : IsMapping(options[i][2])}) = 2
    /\ \E i \in DOMAIN options :
            IsMapping(options[i][2]) /\ Len(options[i][2].v) = 2
    /\ \E i \in DOMAIN options : ~IsMapping(options[i][2])

(***************************************************************************)
(* Properties of the scripts  (checked under SpecScripts)                  *)
(***************************************************************************)
OpsOf(kinds) == {i \in DOMAIN ops : ops[i].op \in kinds}
CmdsOf(classes) == {i \in DOMAIN ops : ops[i].op = "cmd" /\ ops[i].cls \in classes}
EventsOf(e) == {i \in DOMAIN events : events[i].ev = e}
GenerateReturned == EventsOf("generate_returned") # {}

\* C3: each script, run as main to its end, has written a solver input file
\* at the file name passed to its generate function, and a README.
C3_EmitsInputAndReadme ==
    Finished =>
        /\ filename \in DOMAIN fs
        /\ \E i \in EventsOf("create_dat") : events[i].path = filename
        /\ \E p \in DOMAIN fs : Basename(p) = README_MD
        /\ EventsOf("write_readme") # {}

\* C6: in every generate function all geometry-creation commands precede the
\* mesh command, the mesh command precedes every add_node_set, every
\* add_node_set and add_element_type precedes the writing of the input file,
\* and writing the input file is the last operation on the session.
C6_Order ==
    GenerateReturned =>
        /\ CmdsOf({"mesh"}) # {}
        /\ \A g \in CmdsOf({"create"}), m \in CmdsOf({"mesh"}) : g < m
        /\ \A m \in CmdsOf({"mesh"}), n \in OpsOf({"add_node_set"}) : m < n
        /\ OpsOf({"create_dat"}) # {}
        /\ \A x \in OpsOf({"add_node_set", "add_element_type"}),
              w \in OpsOf({"create_dat"}) : x < w
        /\ ops[Len(ops)].op = "create_dat"

\* C7: run as main, the README is written only after the generate function
\* has returned; block torsion and semicircle create ./nonlinear (whether or
\* not it exists) before generate is called; the input file and the README
\* are written into the same directory.
C7_MainOrder ==
    /\ \A w \in EventsOf("write_readme") :
            \E r \in EventsOf("generate_returned") : r < w
    /\ script \in {"block_torsion", "semicircle"} =>
            \A c \in EventsOf("generate_called") :
                \E m \in EventsOf("makedirs") :
                    /\ m < c
                    /\ events[m].path = Dirname(events[c].path)
                    /\ events[m].path \in dirs
    /\ Finished =>
            \E d \in EventsOf("create_dat"), w \in EventsOf("write_readme") :
                /\ Dirname(events[d].path) = Dirname(events[w].path)
                /\ events[d].path \in DOMAIN fs
                /\ events[w].path \in DOMAIN fs

====
